---- MODULE Spec2Model ----
(***************************************************************************)
(* Export pipeline (handleExport), batch export (handleBatchExport) and    *)
(* the export controls of src/Main.tsx.                                    *)
(*                                                                         *)
(* Time is counted in ticks of media time.  PollPeriod ticks stand for the *)
(* 100 ms period of timeCheckInterval; segment and track durations are     *)
(* whole numbers of ticks.  The phase of the poll timer relative to the    *)
(* start of playback is arbitrary (the timer is created before the clip    *)
(* has loaded), so it is chosen when playback starts.                      *)
(*                                                                         *)
(* Three quantities grow without limit in the program and are kept finite  *)
(* here.  With a track attached currentSegmentIndex is read only modulo    *)
(* the number of segments (line 535), so laps after the second are folded  *)
(* onto the second (NextIndex).  Poll timers and track source nodes that   *)
(* an attempt leaves behind are recorded as a fact (leakedPolls,           *)
(* leakedSources), not counted.                                            *)
(***************************************************************************)
EXTENDS Integers, Sequences, FiniteSets, TLC

(* ---- bounds of the model ---- *)
MaxSegs     == 2      \* segments per composition
MaxBgmDur   == 3      \* duration of the background track, in ticks
MaxAcc      == 3      \* a job whose track failed to load starts attempts
                      \* while its accumulated time is at most this
MaxPlayed   == 3      \* playedTime counts up to this many ticks
MaxBatch    == 2      \* compositions selected for a batch
MaxPlayerSegs == 4    \* segments of the playlist of the preview player

(* ---- program constants ---- *)
PollPeriod        == 2       \* setInterval(..., 100): ticks per poll
BgmFailDuration   == 9999    \* totalDuration when the track fails to load
NoBgmDuration     == 999999  \* totalDuration when no track is attached

\* natural durations of the clips, in ticks: shorter and longer than the
\* poll period
Durations == {1, 3}

NoBatch == [current |-> 0, total |-> 0, active |-> FALSE]

VARIABLES
  \* React state of Main
  isExporting, exportProgress, batchStatus,
  \* the last click on an export control and what became of it
  lastReq,
  \* handleBatchExport: position in the loop over targets
  batchPc, batchI, batchTargets,
  batchLog,             \* the calls of handleExport the last batch has made
                        \* that have returned: target index and job status
  \* handleExport: number of running bodies, and the locals of the running one
  pipelines, pc, isBatch,
  composition,          \* natural durations of composition.segments
  bgm,                  \* 0 when no track, else bgm.duration
  bgmBuffer,            \* TRUE when decodeAudioData produced a buffer
  totalDuration,
  currentSegmentIndex, accumulatedTime, isFinished,
  video,                \* [src, paused, currentTime]
  recorder,             \* [state, hasData]
  chunks,               \* chunks.length
  segmentBgmSource,     \* TRUE while the attempt's track source node plays
  leakedSources,        \* TRUE once an attempt was resolved with its track
                        \* source node still playing
  audioCtx,
  loadTimeout,          \* TRUE while the attempt's load timer is pending
  timeCheckInterval,    \* TRUE while the attempt's cutoff poll timer is set
  leakedPolls,          \* TRUE once an attempt was resolved with its poll
                        \* timer still set
  sincePoll,            \* ticks since a poll timer last fired
  drawInterval,
  \* environment of the job: which loads and plays fail
  badSeg, flaky,
  \* observations
  playLog,              \* clips played to their natural end, in order
  playedTime,           \* ticks of playback in the job, up to MaxPlayed
  peakProgress,         \* largest progress value the job has published
  jobStatus,            \* "none", "running", "success" or "failure"
  downloads,            \* files the job has handed to the browser
  cutoffs               \* forced stops by the cutoff poll in the job

reactVars == <<isExporting, exportProgress, batchStatus>>
batchVars == <<batchPc, batchI, batchTargets, batchLog>>
jobConf   == <<isBatch, composition, bgm, badSeg, flaky>>
bgmVars   == <<bgmBuffer, totalDuration>>
loopVars  == <<currentSegmentIndex, accumulatedTime, isFinished>>
mediaVars == <<video, recorder, chunks, segmentBgmSource, leakedSources, audioCtx>>
timerVars == <<loadTimeout, timeCheckInterval, leakedPolls, sincePoll, drawInterval>>
jobObs    == <<playLog, playedTime, peakProgress, jobStatus, downloads, cutoffs>>
\* the state of Main: export controls, batch and the running export job
exportVars == <<reactVars, lastReq, batchVars, pipelines, pc, jobConf, bgmVars,
                loopVars, mediaVars, timerVars, jobObs>>

VARIABLES
  \* SeamlessPlayer: props
  segments,             \* sources of the segments, in playlist order
  playerBgm,            \* TRUE when the bgm prop is set
  \* SeamlessPlayer: React state
  currentIndex, activePlayerId, isPlaying,
  \* SeamlessPlayer: media elements
  videoRef,             \* slot 1 and slot 2: [src, playing, pos]
  audioRef,             \* [playing, pos]
  \* observations
  endedCount,           \* 'ended' events of the video slots since the player
                        \* was last reset, modulo the number of segments
  lastEvent             \* the event the player handled last: "mount",
                        \* "toggle", "tick", "videoEnded", "audioEnded" or
                        \* "propsChanged"

playerVars == <<segments, playerBgm, currentIndex, activePlayerId, isPlaying,
                videoRef, audioRef, endedCount, lastEvent>>

VARIABLES
  \* overlay rendering
  overlay,              \* the OverlayConfig of the segment shown
  surfaceWidth,         \* width of the preview container, in px
  previewOverlay,       \* what the preview has rendered for it, or NoOverlay
  exportOverlay         \* what the draw loop has drawn for it, or NoOverlay

overlayVars == <<overlay, surfaceWidth, previewOverlay, exportOverlay>>

VARIABLES
  \* choice of the recorder's container and of the file name
  supported,            \* MediaRecorder.isTypeSupported, per mime type
  mimeType,             \* the local mimeType of handleExport
  recPc,                \* "setup", "selected", "recording", "done", "failed"
  compName,             \* composition.name, a sequence of characters
  fileName              \* link.download, a sequence of pieces

recorderVars == <<supported, mimeType, recPc, compName, fileName>>

vars == <<exportVars, playerVars, overlayVars, recorderVars>>

(* ---- pure helpers ---- *)
Min(a, b) == IF a <= b THEN a ELSE b

\* Math.round(Math.min(100, (num / den) * 100)) for num >= 0, den > 0
ProgressOf(num, den) == Min(100, (200 * num + den) \div (2 * den))

RECURSIVE SumSeq(_)
SumSeq(s) == IF s = <<>> THEN 0 ELSE Head(s) + SumSeq(Tail(s))

Compositions == UNION {[1..n -> Durations] : n \in 1..MaxSegs}

N == Len(composition)

\* composition.segments[currentSegmentIndex % composition.segments.length]
SegmentAt(idx) == idx % N

\* currentSegmentIndex++ (lines 557, 583, 611, 619)
NextIndex(idx) ==
  IF bgm # 0 /\ idx + 1 >= 2 * N THEN N + ((idx + 1) % N) ELSE idx + 1

NoVideo == [src |-> -1, paused |-> TRUE, currentTime |-> 0]

NoRecorder == [state |-> "inactive", hasData |-> FALSE]

\* the segment's load never completes (it always times out)
AlwaysTimesOut(idx) == SegmentAt(idx) = badSeg
\* the segment may fail in any way on any attempt
MayFail(idx) == flaky /\ ~AlwaysTimesOut(idx)
\* no segment of the job times out, errors or rejects play()
NoErrors == badSeg = -1 /\ ~flaky

(* ---- SeamlessPlayer: media elements ---- *)

\* an element without a source
NoSrc == -1

\* an element loaded with a source autoplays
SlotAutoplay(src) == [src |-> src, playing |-> TRUE, pos |-> 0]

\* el.src = url: the element loads the source and is paused at its start.
\* pos is 0 at the start, 1 in the middle, 2 at the end of the media.
Slot(src) == [src |-> src, playing |-> FALSE, pos |-> 0]

\* el.play(): playback goes on from the current position, from the start
\* when the media had ended; an element without a source plays nothing
Play(el) ==
  IF el.src = NoSrc THEN el
  ELSE [el EXCEPT !.playing = TRUE, !.pos = IF el.pos = 2 THEN 0 ELSE el.pos]

\* el.pause()
Pause(el) == [el EXCEPT !.playing = FALSE]

\* el.pause(); el.currentTime = 0 (lines 40-41, 44-45, 48-49)
StopEl(el) == [el EXCEPT !.playing = FALSE, !.pos = 0]

\* the audio element; it is rendered only with a track (line 137)
NoAudio == [src |-> NoSrc, playing |-> FALSE, pos |-> 0]

\* the playlists of the preview: n distinct sources
Playlist(n) == [i \in 1 .. n |-> i - 1]

\* playlists of n sources that no Playlist holds
OtherPlaylist(n) == [i \in 1 .. n |-> MaxPlayerSegs + i - 1]

\* lines 20-36: the effect that runs when the player is mounted with the
\* props segs and track
PlayerMounted(segs, track) ==
  /\ segments = segs /\ playerBgm = track
  /\ currentIndex = 0 /\ activePlayerId = 1 /\ isPlaying = FALSE
  /\ videoRef = [k \in {1, 2} |->
                   IF k = 1 THEN Slot(segs[1])
                   ELSE IF Len(segs) > 1 THEN Slot(segs[2]) ELSE Slot(NoSrc)]
  /\ audioRef = IF track THEN Slot(0) ELSE NoAudio
  /\ endedCount = 0 /\ lastEvent = "mount"

ExportInit ==
  /\ isExporting = FALSE /\ exportProgress = 0 /\ batchStatus = NoBatch
  /\ lastReq = "none"
  /\ batchPc = "idle" /\ batchI = 0 /\ batchTargets = 0 /\ batchLog = <<>>
  /\ pipelines = 0 /\ pc = "idle" /\ isBatch = FALSE
  /\ composition = <<1>> /\ bgm = 0 /\ badSeg = -1 /\ flaky = FALSE
  /\ bgmBuffer = FALSE /\ totalDuration = 0
  /\ currentSegmentIndex = 0 /\ accumulatedTime = 0 /\ isFinished = FALSE
  /\ video = NoVideo /\ recorder = NoRecorder /\ chunks = 0
  /\ segmentBgmSource = FALSE /\ leakedSources = FALSE /\ audioCtx = "none"
  /\ loadTimeout = FALSE /\ timeCheckInterval = FALSE /\ leakedPolls = FALSE
  /\ sincePoll = 0 /\ drawInterval = FALSE
  /\ playLog = <<>> /\ playedTime = 0 /\ peakProgress = 0
  /\ jobStatus = "none" /\ downloads = 0 /\ cutoffs = 0

(* ---- overlay rendering ---- *)

\* canvas.width, and the reference width of the cqw units of the preview
ReferenceWidth == 720
\* canvas.height
CanvasHeight == 1280
\* line height in hundredths of the font size: fontSize * 1.2 in the draw
\* loop, the class leading-tight (line-height: 1.25) in the preview
ExportLineHeight == 120
LeadingTight == 125

NoOverlay == [drawn |-> FALSE]

\* DEFAULT_OVERLAY (lines 14-26) with its one-line text measured as
\* textWidth px at its font size
DefaultOverlay ==
  [x |-> 50, y |-> 50, fontSize |-> 40, lines |-> 1, textWidth |-> 280,
   strokeWidth |-> 0, shadowBlur |-> 0, bgPadding |-> 20]

\* overlays as the editor produces them: colours are always set; sizes are
\* chosen so that every length is a whole number of hundredths of a px
Overlays ==
  [x : {50}, y : {50, 80}, fontSize : {36, 72}, lines : {1, 2},
   textWidth : {288}, strokeWidth : {0, 4}, shadowBlur : {0, 10},
   bgPadding : {0, 20}]

\* Main.tsx lines 453-481, 490-509: what the draw loop draws for overlay o
\* on the 720 x 1280 canvas; lengths in hundredths of a px
ExportDraw(o) ==
  LET cw         == ReferenceWidth
      ch         == CanvasHeight
      lineHeight == o.fontSize * ExportLineHeight
      pad        == 100 * o.bgPadding
      boxWidth   == 100 * o.textWidth + pad * 2
      boxHeight  == o.lines * lineHeight + pad * 2
  IN  [drawn |-> TRUE,
       left |-> o.x * cw - boxWidth \div 2, top |-> o.y * ch - boxHeight \div 2,
       width |-> boxWidth, height |-> boxHeight,
       font |-> 100 * o.fontSize, stroke |-> 100 * o.strokeWidth,
       shadow |-> 100 * o.shadowBlur, pad |-> pad]

\* (v / 720) * 100 cqw in a container w px wide, in hundredths of a px
Cqw(v, w) == (100 * v * w) \div ReferenceWidth

\* SeamlessPlayer.tsx lines 157-176: the overlay element in a container
\* w px wide with aspect ratio 9/16; lengths in hundredths of a px
PreviewRender(o, w) ==
  LET cw         == w
      ch         == (w * 16) \div 9
      font       == Cqw(o.fontSize, w)
      lineHeight == (font * LeadingTight) \div 100
      pad        == IF o.bgPadding # 0 THEN Cqw(o.bgPadding, w) ELSE 0
      boxWidth   == Cqw(o.textWidth, w) + pad * 2
      boxHeight  == o.lines * lineHeight + pad * 2
  IN  [drawn |-> TRUE,
       left |-> o.x * cw - boxWidth \div 2, top |-> o.y * ch - boxHeight \div 2,
       width |-> boxWidth, height |-> boxHeight,
       font |-> font,
       stroke |-> IF o.strokeWidth # 0 THEN Cqw(o.strokeWidth, w) ELSE 0,
       shadow |-> IF o.shadowBlur # 0 THEN Cqw(o.shadowBlur, w) ELSE 0,
       pad |-> pad]

\* no overlay is being rendered
OverlayIdle ==
  /\ overlay = DefaultOverlay /\ surfaceWidth = ReferenceWidth
  /\ previewOverlay = NoOverlay /\ exportOverlay = NoOverlay

(* ---- container of the recorder and name of the file ---- *)

MaxNameLen == 2       \* characters of a composition name

\* the mime types of lines 405-411, in the order in which they are tried
MimeTypes == <<"video/mp4", "video/webm;codecs=h264", "video/webm">>

\* a selection that goes from mp4 straight to plain webm
SelectMimeTypeSkipH264(sup) ==
  IF sup["video/mp4"] THEN "video/mp4" ELSE "video/webm"

\* lines 405-411: the value of mimeType, given isTypeSupported
SelectMimeType(sup) ==
  IF sup["video/mp4"] THEN "video/mp4"
  ELSE IF sup["video/webm;codecs=h264"] THEN "video/webm;codecs=h264"
  ELSE "video/webm"

\* lines 643-644: ext; includes('webm') holds of the two webm types
Ext(m) ==
  IF m \in {"video/webm;codecs=h264", "video/webm"} THEN "webm" ELSE "mp4"

\* composition names: letters and blanks
Names == UNION {[1..n -> {"a", " "}] : n \in 0..MaxNameLen}

\* name.replace(/\s+/g, '_') (line 649): each run of blanks becomes one '_'
RECURSIVE ReplaceBlanks(_)
ReplaceBlanks(s) ==
  IF s = <<>> THEN <<>>
  ELSE IF Head(s) # " " THEN <<Head(s)>> \o ReplaceBlanks(Tail(s))
  ELSE IF Len(s) > 1 /\ s[2] = " " THEN ReplaceBlanks(Tail(s))
  ELSE <<"_">> \o ReplaceBlanks(Tail(s))

\* line 649: link.download
DownloadName(name, m) == ReplaceBlanks(name) \o <<"_9_16.", Ext(m)>>

\* no recorder is being set up
RecorderIdle ==
  /\ supported = [m \in {MimeTypes[i] : i \in 1..Len(MimeTypes)} |-> TRUE]
  /\ mimeType = "video/mp4" /\ recPc = "setup"
  /\ compName = <<>> /\ fileName = <<>>

\* Main with nothing exported yet and the preview of a one-segment
\* composition without track
Init ==
  /\ ExportInit /\ PlayerMounted(Playlist(1), FALSE)
  /\ OverlayIdle /\ RecorderIdle

(* ---- handleExport ---- *)

\* lines 386-434 and the call at 629: video element, recorder started and
\* paused, loop variables, draw timer; playNextSegment is about to run
SetupAndCall ==
  /\ recorder' = [state |-> "paused", hasData |-> FALSE]
  /\ currentSegmentIndex' = 0 /\ accumulatedTime' = 0 /\ isFinished' = FALSE
  /\ video' = NoVideo
  /\ drawInterval' = TRUE
  /\ pc' = "next"

\* handleExport(c, b) up to its first await, with track the bgm of the
\* closure (0 when none); the environment of the job (bs, fl) is fixed here
HandleExport(c, b, track, bs, fl) ==
  IF isExporting /\ ~b
  THEN UNCHANGED <<isExporting, exportProgress, pipelines, pc, isBatch,
                   composition, badSeg, flaky, bgmVars, loopVars, mediaVars,
                   timerVars, jobObs>>
  ELSE
    /\ isExporting' = (IF b THEN isExporting ELSE TRUE)
    /\ exportProgress' = 0
    /\ pipelines' = pipelines + 1
    /\ isBatch' = b /\ composition' = c /\ badSeg' = bs /\ flaky' = fl
    /\ chunks' = 0 /\ audioCtx' = "running"
    /\ segmentBgmSource' = FALSE /\ leakedSources' = FALSE
    /\ loadTimeout' = FALSE /\ timeCheckInterval' = FALSE /\ leakedPolls' = FALSE
    /\ sincePoll' = 0
    /\ playLog' = <<>> /\ playedTime' = 0 /\ peakProgress' = 0 /\ cutoffs' = 0
    /\ jobStatus' = "running" /\ downloads' = 0
    /\ IF track # 0
       THEN /\ pc' = "fetchBgm"
            /\ bgmBuffer' = FALSE /\ totalDuration' = 0
            /\ recorder' = NoRecorder /\ video' = NoVideo
            /\ currentSegmentIndex' = 0 /\ accumulatedTime' = 0
            /\ isFinished' = FALSE /\ drawInterval' = FALSE
       ELSE /\ bgmBuffer' = FALSE /\ totalDuration' = NoBgmDuration
            /\ SetupAndCall

\* environments of a job: nothing fails, one segment always times out, or
\* any segment may fail in any way on any attempt
JobEnvs(c) == {<<-1, FALSE>>, <<-1, TRUE>>} \cup {<<k, FALSE>> : k \in 0 .. Len(c) - 1}

\* lines 374-377: the track was fetched and decoded
BgmLoaded ==
  /\ pc = "fetchBgm"
  /\ bgmBuffer' = TRUE /\ totalDuration' = bgm
  /\ SetupAndCall
  /\ UNCHANGED <<reactVars, lastReq, batchVars, pipelines, jobConf, chunks,
                 segmentBgmSource, leakedSources, audioCtx, loadTimeout,
                 timeCheckInterval, leakedPolls, sincePoll, jobObs>>
  /\ UNCHANGED <<playerVars, overlayVars, recorderVars>>

\* lines 378-381: fetch or decodeAudioData threw
BgmFailed ==
  /\ pc = "fetchBgm"
  /\ bgmBuffer' = FALSE /\ totalDuration' = BgmFailDuration
  /\ SetupAndCall
  /\ UNCHANGED <<reactVars, lastReq, batchVars, pipelines, jobConf, chunks,
                 segmentBgmSource, leakedSources, audioCtx, loadTimeout,
                 timeCheckInterval, leakedPolls, sincePoll, jobObs>>
  /\ UNCHANGED <<playerVars, overlayVars, recorderVars>>

\* the termination checks with the segment bound off by one
SequencerDoneOffByOne(idx, acc) ==
  \/ bgm # 0 /\ acc >= totalDuration
  \/ bgm = 0 /\ idx > N

\* lines 525-533: the two termination checks of playNextSegment
SequencerDone(idx, acc) ==
  \/ bgm # 0 /\ acc >= totalDuration
  \/ bgm = 0 /\ idx >= N

\* progress taken from the position in the playlist whether or not a track
\* is attached
SegmentProgressByPosition(idx, acc) == ProgressOf(idx % N, N)

\* lines 538-544
SegmentProgress(idx, acc) ==
  IF bgm # 0 THEN ProgressOf(acc, totalDuration) ELSE ProgressOf(idx, N)

\* playNextSegment finds the job finished: it returns, the draw timer is
\* cleared and recorder.stop() is called (lines 525-533, 631-636)
PlayNextSegmentFinish ==
  /\ pc = "next"
  /\ SequencerDone(currentSegmentIndex, accumulatedTime)
  /\ isFinished' = TRUE
  /\ drawInterval' = FALSE
  /\ recorder' = [recorder EXCEPT !.state = "inactive"]
  /\ pc' = "stopping"
  /\ UNCHANGED <<reactVars, lastReq, batchVars, pipelines, jobConf, bgmVars,
                 currentSegmentIndex, accumulatedTime, video, chunks,
                 segmentBgmSource, leakedSources, audioCtx, loadTimeout,
                 timeCheckInterval, leakedPolls, sincePoll, jobObs>>
  /\ UNCHANGED <<playerVars, overlayVars, recorderVars>>

\* playNextSegment starts the attempt on the next segment (lines 535-559,
\* 588-597): progress published, source assigned, both timers created
PlayNextSegmentLoad ==
  /\ pc = "next"
  /\ ~SequencerDone(currentSegmentIndex, accumulatedTime)
  /\ totalDuration = BgmFailDuration => accumulatedTime <= MaxAcc
  /\ exportProgress' = SegmentProgress(currentSegmentIndex, accumulatedTime)
  /\ peakProgress' = IF exportProgress' > peakProgress THEN exportProgress'
                     ELSE peakProgress
  /\ video' = [src |-> SegmentAt(currentSegmentIndex), paused |-> TRUE,
               currentTime |-> 0]
  /\ segmentBgmSource' = FALSE
  /\ loadTimeout' = TRUE
  /\ timeCheckInterval' = TRUE
  /\ pc' = "loading"
  /\ UNCHANGED <<isExporting, batchStatus, lastReq, batchVars, pipelines, jobConf,
                 bgmVars, loopVars, recorder, chunks, leakedSources, audioCtx,
                 leakedPolls, sincePoll, drawInterval, playLog, playedTime,
                 jobStatus, downloads, cutoffs>>
  /\ UNCHANGED <<playerVars, overlayVars, recorderVars>>

\* resolve() of the attempt's promise: the attempt is over, and a poll timer
\* or a track source node it has not cleared stays behind
Resolve(pollSet, sourcePlaying) ==
  /\ timeCheckInterval' = FALSE
  /\ leakedPolls' = (leakedPolls \/ pollSet)
  /\ segmentBgmSource' = FALSE
  /\ leakedSources' = (leakedSources \/ sourcePlaying)
  /\ pc' = "next"

\* a load timer that gives the same segment another attempt
LoadTimeoutNoAdvance ==
  /\ pc = "loading" /\ loadTimeout
  /\ AlwaysTimesOut(currentSegmentIndex) \/ MayFail(currentSegmentIndex)
  /\ loadTimeout' = FALSE
  /\ video' = [video EXCEPT !.src = -1]
  /\ Resolve(timeCheckInterval, segmentBgmSource)
  /\ UNCHANGED <<reactVars, lastReq, batchVars, pipelines, jobConf, bgmVars,
                 currentSegmentIndex, accumulatedTime, isFinished, recorder,
                 chunks, audioCtx, sincePoll, drawInterval, jobObs>>
  /\ UNCHANGED <<playerVars, overlayVars, recorderVars>>

\* lines 553-559: the load timer fires
LoadTimeout ==
  /\ pc = "loading" /\ loadTimeout
  /\ AlwaysTimesOut(currentSegmentIndex) \/ MayFail(currentSegmentIndex)
  /\ loadTimeout' = FALSE
  /\ video' = [video EXCEPT !.src = -1]
  /\ currentSegmentIndex' = NextIndex(currentSegmentIndex)
  /\ Resolve(timeCheckInterval, segmentBgmSource)
  /\ UNCHANGED <<reactVars, lastReq, batchVars, pipelines, jobConf, bgmVars,
                 accumulatedTime, isFinished, recorder, chunks, audioCtx,
                 sincePoll, drawInterval, jobObs>>
  /\ UNCHANGED <<playerVars, overlayVars, recorderVars>>

\* onerror that lets the failure escape: the job ends as failed
OnErrorFatal ==
  /\ loadTimeout' = FALSE
  /\ currentSegmentIndex' = NextIndex(currentSegmentIndex)
  /\ timeCheckInterval' = FALSE /\ segmentBgmSource' = FALSE
  /\ UNCHANGED <<leakedPolls, leakedSources>>
  /\ jobStatus' = "failure"
  /\ pc' = "closing"
  /\ UNCHANGED <<reactVars, lastReq, batchVars, pipelines, jobConf, bgmVars,
                 accumulatedTime, isFinished, video, recorder, chunks, audioCtx,
                 sincePoll, drawInterval, playLog, playedTime, peakProgress,
                 downloads, cutoffs>>

\* lines 615-621: video.onerror
OnError ==
  /\ loadTimeout' = FALSE
  /\ currentSegmentIndex' = NextIndex(currentSegmentIndex)
  /\ Resolve(FALSE, segmentBgmSource)
  /\ UNCHANGED <<reactVars, lastReq, batchVars, pipelines, jobConf, bgmVars,
                 accumulatedTime, isFinished, video, recorder, chunks, audioCtx,
                 sincePoll, drawInterval, jobObs>>

\* the source fails while loading
LoadError ==
  /\ pc = "loading"
  /\ MayFail(currentSegmentIndex)
  /\ OnError
  /\ UNCHANGED <<playerVars, overlayVars, recorderVars>>

\* the source fails during playback; the element stops advancing
PlayError ==
  /\ pc = "playing"
  /\ MayFail(currentSegmentIndex)
  /\ OnError
  /\ UNCHANGED <<playerVars, overlayVars, recorderVars>>

\* lines 561-578: onloadeddata up to the call of video.play()
OnLoadedData ==
  /\ loadTimeout' = FALSE
  /\ recorder' = IF recorder.state = "paused"
                 THEN [recorder EXCEPT !.state = "recording"] ELSE recorder

\* the clip loads and play() starts playback
LoadedData ==
  /\ pc = "loading"
  /\ ~AlwaysTimesOut(currentSegmentIndex)
  /\ OnLoadedData
  /\ segmentBgmSource' = bgmBuffer
  /\ video' = [video EXCEPT !.paused = FALSE]
  /\ sincePoll' \in 0 .. PollPeriod - 1
  /\ pc' = "playing"
  /\ UNCHANGED <<reactVars, lastReq, batchVars, pipelines, jobConf, bgmVars,
                 loopVars, chunks, leakedSources, audioCtx, timeCheckInterval,
                 leakedPolls, drawInterval, jobObs>>
  /\ UNCHANGED <<playerVars, overlayVars, recorderVars>>

\* the clip loads and play() is rejected (lines 580-585)
LoadedDataPlayRejected ==
  /\ pc = "loading"
  /\ MayFail(currentSegmentIndex)
  /\ OnLoadedData
  /\ currentSegmentIndex' = NextIndex(currentSegmentIndex)
  /\ Resolve(timeCheckInterval, bgmBuffer)
  /\ UNCHANGED <<reactVars, lastReq, batchVars, pipelines, jobConf, bgmVars,
                 accumulatedTime, isFinished, video, chunks, audioCtx, sincePoll,
                 drawInterval, jobObs>>
  /\ UNCHANGED <<playerVars, overlayVars, recorderVars>>

\* natural duration of the clip the video element holds (video.duration)
VideoDuration == composition[video.src + 1]

\* one tick of playback; the recorder captures while it is recording
Tick ==
  /\ pc = "playing" /\ ~video.paused
  /\ video.currentTime < VideoDuration
  /\ sincePoll < PollPeriod
  /\ video' = [video EXCEPT !.currentTime = @ + 1]
  /\ sincePoll' = sincePoll + 1
  /\ playedTime' = Min(playedTime + 1, MaxPlayed)
  /\ recorder' = [recorder EXCEPT !.hasData = @ \/ recorder.state = "recording"]
  /\ UNCHANGED <<reactVars, lastReq, batchVars, pipelines, pc, jobConf, bgmVars,
                 loopVars, chunks, segmentBgmSource, leakedSources, audioCtx,
                 loadTimeout, timeCheckInterval, leakedPolls, drawInterval,
                 playLog, peakProgress, jobStatus, downloads, cutoffs>>
  /\ UNCHANGED <<playerVars, overlayVars, recorderVars>>

\* a cutoff test that lets the clip run on at the very end of the track
CutoffReachedStrict ==
  bgm # 0 /\ ~video.paused
  /\ accumulatedTime + video.currentTime > totalDuration

\* lines 589-591: the test of the cutoff poll
CutoffReached ==
  bgm # 0 /\ ~video.paused
  /\ accumulatedTime + video.currentTime >= totalDuration

\* lines 599-613: video.onended
OnEnded ==
  /\ loadTimeout' = FALSE
  /\ recorder' = IF recorder.state = "recording"
                 THEN [recorder EXCEPT !.state = "paused"] ELSE recorder
  /\ accumulatedTime' = accumulatedTime + VideoDuration
  /\ currentSegmentIndex' = NextIndex(currentSegmentIndex)
  /\ Resolve(FALSE, FALSE)
  /\ video' = [video EXCEPT !.paused = TRUE]
  /\ UNCHANGED <<reactVars, lastReq, batchVars, pipelines, jobConf, bgmVars,
                 isFinished, chunks, audioCtx, sincePoll, drawInterval,
                 playedTime, peakProgress, jobStatus, downloads>>

\* the clip reaches its end and the element fires 'ended'
Ended ==
  /\ pc = "playing" /\ ~video.paused
  /\ video.currentTime = VideoDuration
  /\ OnEnded
  /\ playLog' = Append(playLog, video.src)
  /\ UNCHANGED cutoffs
  /\ UNCHANGED <<playerVars, overlayVars, recorderVars>>

\* lines 588-597: a poll that finds the cutoff reached pauses the clip,
\* clears its timer and dispatches 'ended'
PollCutoff ==
  /\ pc = "playing" /\ sincePoll = PollPeriod
  /\ CutoffReached
  /\ OnEnded
  /\ cutoffs' = 1
  /\ UNCHANGED playLog
  /\ UNCHANGED <<playerVars, overlayVars, recorderVars>>

\* a poll that finds nothing to do
PollIdle ==
  /\ pc = "playing" /\ sincePoll = PollPeriod
  /\ ~CutoffReached
  /\ sincePoll' = 0
  /\ UNCHANGED <<reactVars, lastReq, batchVars, pipelines, pc, jobConf, bgmVars,
                 loopVars, mediaVars, loadTimeout, timeCheckInterval, leakedPolls,
                 drawInterval, jobObs>>
  /\ UNCHANGED <<playerVars, overlayVars, recorderVars>>

(* ---- end of handleExport ---- *)

\* onstop without the check of the chunk list: a file is always produced
RecorderStoppedUnchecked ==
  /\ pc = "stopping"
  /\ \E size \in (IF recorder.hasData THEN {1} ELSE {0, 1}) :
       chunks' = IF size > 0 THEN chunks + 1 ELSE chunks
  /\ jobStatus' = "success"
  /\ downloads' = downloads + 1
  /\ video' = NoVideo
  /\ drawInterval' = FALSE
  /\ pc' = "closing"
  /\ UNCHANGED <<reactVars, lastReq, batchVars, pipelines, jobConf, bgmVars,
                 loopVars, recorder, segmentBgmSource, leakedSources, audioCtx,
                 loadTimeout, timeCheckInterval, leakedPolls, sincePoll,
                 playLog, playedTime, peakProgress, cutoffs>>
  /\ UNCHANGED <<playerVars, overlayVars, recorderVars>>

\* lines 418-420, 633-658: the recorder delivers its data and fires onstop;
\* an empty chunk list throws, otherwise the file is downloaded and the
\* video element released; either way the finally block starts (663-667)
RecorderStopped ==
  /\ pc = "stopping"
  /\ \E size \in (IF recorder.hasData THEN {1} ELSE {0, 1}) :
       /\ chunks' = IF size > 0 THEN chunks + 1 ELSE chunks
       /\ IF chunks' = 0
          THEN /\ jobStatus' = "failure"
               /\ UNCHANGED <<downloads, video>>
          ELSE /\ jobStatus' = "success"
               /\ downloads' = downloads + 1
               /\ video' = NoVideo
  /\ drawInterval' = FALSE
  /\ pc' = "closing"
  /\ UNCHANGED <<reactVars, lastReq, batchVars, pipelines, jobConf, bgmVars,
                 loopVars, recorder, segmentBgmSource, leakedSources, audioCtx,
                 loadTimeout, timeCheckInterval, leakedPolls, sincePoll,
                 playLog, playedTime, peakProgress, cutoffs>>
  /\ UNCHANGED <<playerVars, overlayVars, recorderVars>>

\* a finally block that leaves isExporting as it is
CloseAudioContextKeepsGuard ==
  /\ pc = "closing"
  /\ audioCtx' = "closed"
  /\ isExporting' = isExporting
  /\ exportProgress' = 0
  /\ pipelines' = pipelines - 1
  /\ pc' = "idle"
  /\ batchPc' = IF isBatch THEN "cooldown" ELSE batchPc
  /\ batchLog' = IF isBatch
                 THEN Append(batchLog, [target |-> batchI, status |-> jobStatus,
                                        files |-> downloads])
                 ELSE batchLog
  /\ composition' = <<1>> /\ badSeg' = -1 /\ flaky' = FALSE
  /\ bgm' = IF isBatch THEN bgm ELSE 0
  /\ bgmBuffer' = FALSE /\ totalDuration' = 0
  /\ currentSegmentIndex' = 0 /\ accumulatedTime' = 0 /\ sincePoll' = 0
  /\ playLog' = <<>> /\ playedTime' = 0 /\ peakProgress' = 0 /\ cutoffs' = 0
  /\ UNCHANGED <<batchStatus, lastReq, batchI, batchTargets, isBatch, isFinished,
                 video, recorder, chunks, segmentBgmSource, leakedSources, loadTimeout, timeCheckInterval, leakedPolls,
                 drawInterval, jobStatus, downloads>>
  /\ UNCHANGED <<playerVars, overlayVars, recorderVars>>

\* lines 668-675: the audio context is closed and the React state reset;
\* handleExport returns, so its arguments and loop locals cease to exist
\* (they take their initial values here); what outlives the call is kept:
\* the timers, the audio graph, the video element and the recorder
CloseAudioContext ==
  /\ pc = "closing"
  /\ audioCtx' = "closed"
  /\ isExporting' = (IF isBatch THEN isExporting ELSE FALSE)
  /\ exportProgress' = 0
  /\ pipelines' = pipelines - 1
  /\ pc' = "idle"
  /\ batchPc' = IF isBatch THEN "cooldown" ELSE batchPc
  /\ batchLog' = IF isBatch
                 THEN Append(batchLog, [target |-> batchI, status |-> jobStatus,
                                        files |-> downloads])
                 ELSE batchLog
  /\ composition' = <<1>> /\ badSeg' = -1 /\ flaky' = FALSE
  /\ bgm' = IF isBatch THEN bgm ELSE 0
  /\ bgmBuffer' = FALSE /\ totalDuration' = 0
  /\ currentSegmentIndex' = 0 /\ accumulatedTime' = 0 /\ sincePoll' = 0
  /\ playLog' = <<>> /\ playedTime' = 0 /\ peakProgress' = 0 /\ cutoffs' = 0
  /\ UNCHANGED <<batchStatus, lastReq, batchI, batchTargets, isBatch, isFinished,
                 video, recorder, chunks, segmentBgmSource, leakedSources, loadTimeout, timeCheckInterval, leakedPolls,
                 drawInterval, jobStatus, downloads>>
  /\ UNCHANGED <<playerVars, overlayVars, recorderVars>>

(* ---- the export controls ---- *)

\* the single-export button disabled only by a single export
ExportButtonIgnoresBatch == isExporting

\* line 1128: disabled attribute of the single-export button
ExportButtonDisabled == isExporting \/ batchStatus.active

\* line 1201: disabled attribute of the batch-export button, with sel
\* compositions selected
BatchButtonDisabled(sel) == isExporting \/ batchStatus.active \/ sel = 0

\* a click on the enabled single-export button: handleExport(activeComposition)
ExportClick ==
  /\ ~ExportButtonDisabled
  /\ \E c \in Compositions, b \in 0 .. MaxBgmDur :
       \E env \in JobEnvs(c) :
         /\ bgm' = b
         /\ HandleExport(c, FALSE, b, env[1], env[2])
  /\ lastReq' = "accepted"
  /\ batchLog' = <<>>
  /\ UNCHANGED <<batchStatus, batchPc, batchI, batchTargets>>
  /\ UNCHANGED <<playerVars, overlayVars, recorderVars>>

\* a click on the single-export button while it is disabled: no handler runs
RejectedExportClick ==
  /\ ExportButtonDisabled
  /\ lastReq' = "rejected"
  /\ UNCHANGED <<reactVars, batchVars, pipelines, pc, jobConf, bgmVars, loopVars,
                 mediaVars, timerVars, jobObs>>
  /\ UNCHANGED <<playerVars, overlayVars, recorderVars>>

(* ---- handleBatchExport ---- *)

\* lines 679-690, entered by a click on the enabled batch button with sel
\* targets
BatchClick ==
  /\ \E sel \in 1 .. MaxBatch, b \in 0 .. MaxBgmDur :
       /\ ~BatchButtonDisabled(sel)
       /\ bgm' = b
       /\ IF isExporting \/ batchStatus.active
          THEN UNCHANGED <<batchStatus, batchVars>>
          ELSE /\ batchStatus' = [current |-> 0, total |-> sel, active |-> TRUE]
               /\ batchPc' = "wait" /\ batchI' = 0 /\ batchTargets' = sel
               /\ batchLog' = <<>>
  /\ lastReq' = "accepted"
  /\ UNCHANGED <<isExporting, exportProgress, pipelines, pc, isBatch, composition,
                 badSeg, flaky, bgmVars, loopVars, mediaVars, timerVars, jobObs>>
  /\ UNCHANGED <<playerVars, overlayVars, recorderVars>>

\* a click on the batch button while it is disabled
RejectedBatchClick ==
  /\ \E sel \in 0 .. MaxBatch : BatchButtonDisabled(sel)
  /\ lastReq' = "rejected"
  /\ UNCHANGED <<reactVars, batchVars, pipelines, pc, jobConf, bgmVars, loopVars,
                 mediaVars, timerVars, jobObs>>
  /\ UNCHANGED <<playerVars, overlayVars, recorderVars>>

\* lines 692-695: one iteration of the loop, up to the first await inside
\* handleExport(targets[i], true)
BatchIteration(i) ==
  /\ batchI' = i
  /\ batchPc' = "job"
  /\ batchStatus' = [batchStatus EXCEPT !.current = i + 1]
  /\ \E c \in Compositions :
       \E env \in JobEnvs(c) :
         HandleExport(c, TRUE, bgm, env[1], env[2])
  /\ UNCHANGED <<lastReq, batchTargets, batchLog, bgm>>

\* the 100 ms wait of line 690 is over: first iteration
BatchFirstJob ==
  /\ batchPc = "wait"
  /\ BatchIteration(0)
  /\ UNCHANGED <<playerVars, overlayVars, recorderVars>>

\* a loop that gives up after a failed job
BatchNextJobAbortsOnFailure ==
  /\ batchPc = "cooldown"
  /\ batchI + 1 < batchTargets
  /\ IF jobStatus = "failure"
     THEN /\ batchStatus' = NoBatch
          /\ batchPc' = "idle" /\ batchI' = 0 /\ batchTargets' = 0
          /\ bgm' = 0
          /\ UNCHANGED <<batchLog, isExporting, exportProgress, lastReq, pipelines,
                         pc, isBatch, composition, badSeg, flaky, bgmVars,
                         loopVars, mediaVars, timerVars, jobObs>>
     ELSE BatchIteration(batchI + 1)
  /\ UNCHANGED <<playerVars, overlayVars, recorderVars>>

\* a loop that does not await handleExport before it goes on
BatchNextJobNoAwait ==
  /\ batchPc \in {"job", "cooldown"}
  /\ batchI + 1 < batchTargets
  /\ BatchIteration(batchI + 1)
  /\ UNCHANGED <<playerVars, overlayVars, recorderVars>>

\* the 1000 ms cooldown of line 699 is over and another target remains
BatchNextJob ==
  /\ batchPc = "cooldown"
  /\ batchI + 1 < batchTargets
  /\ BatchIteration(batchI + 1)
  /\ UNCHANGED <<playerVars, overlayVars, recorderVars>>

\* the cooldown after the last target is over (lines 702-703)
BatchFinish ==
  /\ batchPc = "cooldown"
  /\ batchI + 1 >= batchTargets
  /\ batchStatus' = NoBatch
  /\ batchPc' = "idle" /\ batchI' = 0 /\ batchTargets' = 0
  /\ bgm' = 0
  /\ UNCHANGED batchLog
  /\ UNCHANGED <<isExporting, exportProgress, lastReq, pipelines, pc, isBatch,
                 composition, badSeg, flaky, bgmVars, loopVars, mediaVars, timerVars, jobObs>>
  /\ UNCHANGED <<playerVars, overlayVars, recorderVars>>

Next ==
  \/ ExportClick \/ RejectedExportClick
  \/ BatchClick \/ RejectedBatchClick
  \/ BatchFirstJob \/ BatchNextJob \/ BatchFinish
  \/ BgmLoaded \/ BgmFailed
  \/ PlayNextSegmentFinish \/ PlayNextSegmentLoad
  \/ LoadTimeout \/ LoadError \/ LoadedData \/ LoadedDataPlayRejected
  \/ Tick \/ PollIdle \/ PollCutoff \/ Ended \/ PlayError
  \/ RecorderStopped \/ CloseAudioContext

Spec == Init /\ [][Next]_vars


\* every step of a running job or batch: timers firing, media events, the
\* continuations of awaited promises.  The browser runs each of them once
\* it is due; clicks are up to the user.
PipelineStep ==
  \/ BatchFirstJob \/ BatchNextJob \/ BatchFinish
  \/ BgmLoaded \/ BgmFailed
  \/ PlayNextSegmentFinish \/ PlayNextSegmentLoad
  \/ LoadTimeout \/ LoadError \/ LoadedData \/ LoadedDataPlayRejected
  \/ Tick \/ PollIdle \/ PollCutoff \/ Ended \/ PlayError
  \/ RecorderStopped \/ CloseAudioContext

FairSpec == Init /\ [][Next]_vars /\ WF_vars(PipelineStep)

(* ---- SeamlessPlayer: handlers ---- *)

\* a stopAll that pauses the two slots and leaves their positions
StopAllNoRewind(v) == [k \in {1, 2} |-> [v[k] EXCEPT !.playing = FALSE]]

\* lines 38-46: stopAll on the two video slots
StopAll(v) == [k \in {1, 2} |-> StopEl(v[k])]

\* line 81: the slot that is not id
Other(id) == IF id = 1 THEN 2 ELSE 1

\* the end-of-playlist test taken one segment too late
PlaylistOverOffByOne(nextIndex) == nextIndex > Len(segments)

\* lines 67, 71: nextIndex >= segments.length
PlaylistOver(nextIndex) == nextIndex >= Len(segments)

\* lines 53-61: handleAudioEnded
HandleAudioEnded ==
  /\ playerBgm
  /\ isPlaying' = FALSE
  /\ videoRef' = [StopAll(videoRef) EXCEPT ![1] = Slot(segments[1])]
  /\ audioRef' = StopEl(audioRef)
  /\ currentIndex' = 0
  /\ activePlayerId' = 1

\* the track reaches its end and the audio element fires 'ended'
AudioEnded ==
  /\ audioRef.playing /\ audioRef.pos = 1
  /\ HandleAudioEnded
  /\ endedCount' = 0 /\ lastEvent' = "audioEnded"
  /\ UNCHANGED <<segments, playerBgm, exportVars, overlayVars, recorderVars>>

\* lines 63-103: handleVideoEnded, with v the two slots when it runs;
\* accepted tells whether the play() of line 85 starts playback or is
\* rejected (the catch of line 85 only logs)
HandleVideoEndedWith(v, accepted) ==
  IF ~playerBgm /\ PlaylistOver(currentIndex + 1)
  THEN \* lines 71-78; without a track there is no audio element to stop
       /\ isPlaying' = FALSE
       /\ videoRef' = [StopAll(v) EXCEPT ![1] = Slot(segments[1])]
       /\ currentIndex' = 0
       /\ activePlayerId' = 1
       /\ UNCHANGED audioRef
  ELSE LET nextIndex == IF PlaylistOver(currentIndex + 1) THEN 0
                        ELSE currentIndex + 1
           nextActiveId == Other(activePlayerId)
           preloadIndex == IF playerBgm /\ nextIndex + 1 >= Len(segments)
                           THEN 0 ELSE nextIndex + 1
           played == IF accepted
                     THEN [v EXCEPT ![nextActiveId] = Play(v[nextActiveId])]
                     ELSE v
       IN  /\ activePlayerId' = nextActiveId
           /\ currentIndex' = nextIndex
           /\ videoRef' = IF preloadIndex < Len(segments)
                          THEN [played EXCEPT ![activePlayerId] =
                                                Slot(segments[preloadIndex + 1])]
                          ELSE played
           /\ UNCHANGED <<isPlaying, audioRef>>

\* handleVideoEnded when play() starts playback
HandleVideoEnded(v) == HandleVideoEndedWith(v, TRUE)

\* the clip of slot k reaches its end and the slot fires 'ended'
VideoEnded(k) ==
  /\ videoRef[k].playing /\ videoRef[k].pos = 1
  /\ HandleVideoEnded([videoRef EXCEPT ![k] = [@ EXCEPT !.playing = FALSE, !.pos = 2]])
  /\ endedCount' = (endedCount + 1) % Len(segments)
  /\ lastEvent' = "videoEnded"
  /\ UNCHANGED <<segments, playerBgm, exportVars, overlayVars, recorderVars>>

\* the clip of slot k reaches its end and the play() of the next slot is
\* rejected
VideoEndedPlayRejected(k) ==
  /\ videoRef[k].playing /\ videoRef[k].pos = 1
  /\ ~(~playerBgm /\ PlaylistOver(currentIndex + 1))
  /\ HandleVideoEndedWith([videoRef EXCEPT ![k] = [@ EXCEPT !.playing = FALSE, !.pos = 2]],
                          FALSE)
  /\ endedCount' = (endedCount + 1) % Len(segments)
  /\ lastEvent' = "videoEnded"
  /\ UNCHANGED <<segments, playerBgm, exportVars, overlayVars, recorderVars>>

\* lines 105-122: togglePlay; the promise of play() resolves, and
\* setIsPlaying(true) runs, when the active slot starts playing
TogglePlay ==
  /\ IF isPlaying
     THEN /\ videoRef' = [videoRef EXCEPT ![activePlayerId] = Pause(@)]
          /\ audioRef' = IF playerBgm THEN Pause(audioRef) ELSE audioRef
          /\ isPlaying' = FALSE
     ELSE /\ videoRef' = [videoRef EXCEPT ![activePlayerId] = Play(@)]
          /\ isPlaying' = Play(videoRef[activePlayerId]).playing
          /\ audioRef' = IF playerBgm THEN Play(audioRef) ELSE audioRef
  /\ lastEvent' = "toggle"
  /\ UNCHANGED <<segments, playerBgm, currentIndex, activePlayerId, endedCount,
                 exportVars, overlayVars, recorderVars>>

\* lines 113-120: togglePlay while not playing, the play() of the active
\* slot being rejected: setIsPlaying(true) does not run, the catch only
\* logs, and the play() of the audio element is called all the same
TogglePlayRejected ==
  /\ ~isPlaying
  /\ audioRef' = IF playerBgm THEN Play(audioRef) ELSE audioRef
  /\ lastEvent' = "toggle"
  /\ UNCHANGED <<segments, playerBgm, currentIndex, activePlayerId, isPlaying,
                 videoRef, endedCount, exportVars, overlayVars, recorderVars>>

\* playback of slot k moves on from the start of its clip
VideoTick(k) ==
  /\ videoRef[k].playing /\ videoRef[k].pos = 0
  /\ videoRef' = [videoRef EXCEPT ![k] = [@ EXCEPT !.pos = 1]]
  /\ lastEvent' = "tick"
  /\ UNCHANGED <<segments, playerBgm, currentIndex, activePlayerId, isPlaying,
                 audioRef, endedCount, exportVars, overlayVars, recorderVars>>

\* playback of the track moves on from its start
AudioTick ==
  /\ audioRef.playing /\ audioRef.pos = 0
  /\ audioRef' = [audioRef EXCEPT !.pos = 1]
  /\ lastEvent' = "tick"
  /\ UNCHANGED <<segments, playerBgm, currentIndex, activePlayerId, isPlaying,
                 videoRef, endedCount, exportVars, overlayVars, recorderVars>>

\* lines 20-36: the props segments or bgm change and the effect runs again
\* on the elements as they are; the audio element exists only with a track
\* (line 136)
PropsChanged ==
  /\ \E n \in 1 .. MaxPlayerSegs, track \in BOOLEAN :
       \E segs \in {Playlist(n), OtherPlaylist(n)} :
         /\ <<segs, track>> # <<segments, playerBgm>>
         /\ segments' = segs /\ playerBgm' = track
         /\ videoRef' = [k \in {1, 2} |->
                           IF k = 1 THEN Slot(segs[1])
                           ELSE IF Len(segs) > 1 THEN Slot(segs[2])
                           ELSE StopAll(videoRef)[2]]
         /\ audioRef' = IF track THEN Slot(0) ELSE NoAudio
  /\ currentIndex' = 0 /\ activePlayerId' = 1 /\ isPlaying' = FALSE
  /\ endedCount' = 0 /\ lastEvent' = "propsChanged"
  /\ UNCHANGED <<exportVars, overlayVars, recorderVars>>

\* the preview mounted with a playlist of 1 .. MaxPlayerSegs segments, with
\* or without track; nothing is exported meanwhile
PlayerInit ==
  /\ ExportInit /\ OverlayIdle /\ RecorderIdle
  /\ \E n \in 1 .. MaxPlayerSegs, track \in BOOLEAN :
       PlayerMounted(Playlist(n), track)

PlayerNext ==
  \/ TogglePlay \/ TogglePlayRejected
  \/ PropsChanged
  \/ \E k \in {1, 2} : VideoEndedPlayRejected(k)
  \/ \E k \in {1, 2} : VideoTick(k)
  \/ AudioTick
  \/ \E k \in {1, 2} : VideoEnded(k)
  \/ AudioEnded

PlayerSpec == PlayerInit /\ [][PlayerNext]_vars

(* ---- overlay rendering: preview and export of one overlay ---- *)

\* the preview renders the overlay of the current segment
RenderPreview ==
  /\ previewOverlay' = PreviewRender(overlay, surfaceWidth)
  /\ UNCHANGED <<overlay, surfaceWidth, exportOverlay, exportVars, playerVars,
                 recorderVars>>

\* the draw loop of an export draws the overlay of the active segment
DrawExport ==
  /\ exportOverlay' = ExportDraw(overlay)
  /\ UNCHANGED <<overlay, surfaceWidth, previewOverlay, exportVars, playerVars,
                 recorderVars>>

\* the container of the preview is resized; the preview renders again
ResizePreview ==
  /\ surfaceWidth' \in {360, ReferenceWidth} \ {surfaceWidth}
  /\ previewOverlay' = IF previewOverlay.drawn
                       THEN PreviewRender(overlay, surfaceWidth')
                       ELSE previewOverlay
  /\ UNCHANGED <<overlay, exportOverlay, exportVars, playerVars,
                 recorderVars>>

\* one overlay out of Overlays, shown in the preview and exported
OverlayInit ==
  /\ ExportInit /\ PlayerMounted(Playlist(1), FALSE)
  /\ RecorderIdle
  /\ overlay \in Overlays /\ surfaceWidth = ReferenceWidth
  /\ previewOverlay = NoOverlay /\ exportOverlay = NoOverlay

OverlayNext == RenderPreview \/ DrawExport \/ ResizePreview

OverlaySpec == OverlayInit /\ [][OverlayNext]_vars

(* ---- container of the recorder and name of the downloaded file ---- *)

\* lines 405-411: mimeType is selected
ChooseContainer ==
  /\ recPc = "setup"
  /\ mimeType' = SelectMimeType(supported)
  /\ recPc' = "selected"
  /\ UNCHANGED <<supported, compName, fileName, exportVars, playerVars,
                 overlayVars>>

\* line 413: new MediaRecorder(canvasStream, {mimeType, ...}), which throws
\* NotSupportedError for a type that is not supported; handleExport then
\* ends in its catch block
NewMediaRecorder ==
  /\ recPc = "selected"
  /\ recPc' = IF supported[mimeType] THEN "recording" ELSE "failed"
  /\ UNCHANGED <<supported, mimeType, compName, fileName, exportVars, playerVars,
                 overlayVars>>

\* lines 639-653: the recording has data and is downloaded
DownloadFile ==
  /\ recPc = "recording"
  /\ fileName' = DownloadName(compName, mimeType)
  /\ recPc' = "done"
  /\ UNCHANGED <<supported, mimeType, compName, exportVars, playerVars,
                 overlayVars>>

\* lines 639-641: the recording has no data, nothing is downloaded
NoDataRecorded ==
  /\ recPc = "recording"
  /\ recPc' = "failed"
  /\ UNCHANGED <<supported, mimeType, compName, fileName, exportVars, playerVars,
                 overlayVars>>

\* one export in a browser with any support of the three types, of a
\* composition with any name
RecorderInit ==
  /\ ExportInit /\ PlayerMounted(Playlist(1), FALSE) /\ OverlayIdle
  /\ supported \in [{MimeTypes[i] : i \in 1..Len(MimeTypes)} -> BOOLEAN]
  /\ compName \in Names
  /\ mimeType = "video/mp4" /\ recPc = "setup" /\ fileName = <<>>

RecorderNext ==
  ChooseContainer \/ NewMediaRecorder \/ DownloadFile \/ NoDataRecorded

RecorderSpec == RecorderInit /\ [][RecorderNext]_vars

(* ======================= properties ======================= *)

\* the segment loop of the running job has ended; its locals are still there
LoopOver == pc \in {"stopping", "closing"}
\* the track was decoded: the job is bound to its duration
TrackDecoded == bgm # 0 /\ bgmBuffer /\ pc \notin {"idle", "fetchBgm"}
\* the track failed to load
TrackFailed == bgm # 0 /\ totalDuration = BgmFailDuration
\* an export, single or batch, is active
ExportActive == isExporting \/ batchStatus.active

\* C1: with a decoded track of duration D, accumulatedTime never exceeds D.
C1_AccumulatedWithinTrack ==
  TrackDecoded => accumulatedTime <= totalDuration

\* C2: when the track fails to load the job behaves as without a track: in
\* a job without segment failures no attempt is made beyond the N-th (no
\* replay) and no cutoff is applied.
C2_FailedTrackPlaysEachOnce ==
  (TrackFailed /\ NoErrors /\ pc \in {"loading", "playing"})
    => (currentSegmentIndex < N /\ cutoffs = 0)

\* C3: a click on an export control while an export is active is rejected
\* and leaves exportProgress, isExporting and batchStatus as they were.
C3_RejectedRequestChangesNothing ==
  [][(ExportActive /\ lastReq' # lastReq)
       => (lastReq' = "rejected"
           /\ UNCHANGED <<exportProgress, isExporting, batchStatus>>)]_vars

C3_Witness ==
  lastReq = "rejected" /\ pipelines = 1 /\ exportProgress > 0

\* C4: at most one handleExport body runs at any time.
C4_OnePipeline == pipelines <= 1

C4_Witness ==
  pipelines = 1 /\ batchStatus.active /\ pc = "playing" /\ lastReq = "rejected"

\* C5: without a track and without segment failures the clips are played to
\* their end once each in index order; the accumulated time is the sum of
\* the durations played, and at the end of the loop all N have been played.
C5_EachSegmentOnceInOrder ==
  (pc \notin {"idle", "fetchBgm"} /\ bgm = 0 /\ NoErrors)
    => /\ playLog = [i \in 1 .. Len(playLog) |-> i - 1]
       /\ Len(playLog) = currentSegmentIndex
       /\ accumulatedTime = SumSeq(SubSeq(composition, 1, Len(playLog)))
       /\ cutoffs = 0
       /\ LoopOver => (Len(playLog) = N /\ accumulatedTime = SumSeq(composition))

C5_Witness ==
  pc = "closing" /\ bgm = 0 /\ NoErrors /\ N = MaxSegs
  /\ jobStatus = "success" /\ Len(playLog) = N

\* C6: without a track and without segment failures the last progress value
\* the segment loop publishes is 100.
C6_FinalProgressIs100 ==
  (LoopOver /\ bgm = 0 /\ NoErrors) => exportProgress = 100

\* C7: with a decoded track of duration D the segments are played for D in
\* total.
C7_PlayedTimeEqualsTrack ==
  (LoopOver /\ TrackDecoded) => playedTime = totalDuration

\* C8: a job one segment of which always times out, the others playing
\* without failure, completes, without a track and with a decoded one.
C8_JobWithTimeoutCompletes ==
  (jobStatus = "running" /\ badSeg # -1 /\ (bgm = 0 \/ TrackDecoded))
    ~> (jobStatus \in {"success", "failure"})

\* C9: no segment failure fails the job: a job ends as failed only at the
\* recorder's stop and only with no chunk, and a job that recorded data
\* ends in success with its file.
C9_SegmentFailuresNotFatal ==
  /\ jobStatus = "failure" => (pc \in {"closing", "idle"} /\ chunks = 0)
  /\ (pc = "closing" /\ recorder.hasData)
       => (jobStatus = "success" /\ downloads = 1)

C9_Witness ==
  pc = "closing" /\ flaky /\ leakedPolls /\ leakedSources
  /\ Len(playLog) >= 1 /\ jobStatus = "success"

\* C10: a job whose recorder delivered no chunk ends as failed without a
\* file; a file is produced only with at least one chunk.
C10_NoDataNoFile ==
  jobStatus \in {"success", "failure"}
    => /\ chunks = 0 => (jobStatus = "failure" /\ downloads = 0)
       /\ downloads > 0 => (chunks > 0 /\ jobStatus = "success")

C10_Witness ==
  pc = "closing" /\ jobStatus = "failure" /\ chunks = 0 /\ downloads = 0

\* the last batch has run to its end
BatchEnded == batchPc = "idle" /\ batchLog # <<>>

\* C11: in a batch the calls of handleExport are made for targets 0, 1, ...
\* in order, one per target, whatever the status of the earlier jobs; a job
\* of the batch has a file exactly when it succeeded; the loop ends only
\* after every target has been exported, and then batchStatus.active is
\* false.
C11_BatchAttemptsEachOnce ==
  /\ [](batchPc \in {"job", "cooldown"} =>
          /\ batchStatus.active
          /\ Len(batchLog) = (IF batchPc = "job" THEN batchI ELSE batchI + 1))
  /\ [](\A k \in 1 .. Len(batchLog) :
          /\ batchLog[k].target = k - 1
          /\ batchLog[k].status \in {"success", "failure"}
          /\ batchLog[k].files = (IF batchLog[k].status = "success" THEN 1 ELSE 0))
  /\ [][(batchPc # "idle" /\ batchPc' = "idle") =>
          (Len(batchLog') = batchTargets /\ ~batchStatus'.active)]_vars
  /\ [](BatchEnded => ~batchStatus.active)
\* a finished batch of MaxBatch targets whose first job failed and whose
\* last job produced its file
C11_Witness ==
  /\ BatchEnded /\ Len(batchLog) = MaxBatch
  /\ batchLog[1].status = "failure"
  /\ batchLog[MaxBatch].status = "success" /\ batchLog[MaxBatch].files = 1

\* lines 696-698: the targets the catch of the batch loop has logged as
\* failed.  handleExport catches every error of a job itself (660-662) and
\* returns normally, so the catch of the loop never runs.
BatchFailuresLogged == {}

\* C12: when a batch has ended, its final state tells how many jobs were
\* attempted, and every job that failed is recorded as failed.
C12_BatchReportsFailures ==
  BatchEnded =>
    /\ batchStatus.total = Len(batchLog)
    /\ \A k \in 1 .. Len(batchLog) :
         batchLog[k].status = "failure" => batchLog[k].target \in BatchFailuresLogged

\* C13 as stated: every value of exportProgress is an integer in 0..100 and
\* no step of a running job, from its start to its end, lowers it.
C13_ProgressMonotonicToEnd ==
  /\ [](exportProgress \in 0 .. 100)
  /\ [][pc # "idle" => exportProgress' >= exportProgress]_vars

\* C13, amended: every value of exportProgress is an integer in 0..100; no
\* step of a running job lowers it until the job's finally block runs, and
\* that block resets it to 0.
C13_ProgressMonotonicUntilReset ==
  /\ [](exportProgress \in 0 .. 100)
  /\ [](pc # "idle" => exportProgress = peakProgress)
  /\ [][pc \notin {"idle", "closing"} => exportProgress' >= exportProgress]_vars
  /\ [][(pc = "closing" /\ pc' = "idle") => exportProgress' = 0]_vars
\* a job that has published a value above 0 and is about to run its finally
\* block
C13_Witness == pc = "closing" /\ exportProgress > 0 /\ currentSegmentIndex > 1

\* C14: while a segment is loading the recorder is paused, and while a
\* segment is playing the recorder is recording.
C14_RecorderPausedWhileLoading ==
  /\ pc = "loading" => recorder.state = "paused"
  /\ pc = "playing" => recorder.state = "recording"

(* ---- properties of the preview player ---- *)

\* the preview is idle: not playing, at the first segment, on slot 1
PlayerIdle ==
  /\ ~isPlaying /\ currentIndex = 0 /\ activePlayerId = 1
  /\ \A k \in {1, 2} : ~videoRef[k].playing

\* C15: without a track every completed segment moves the preview one
\* segment on, and when the last of the N segments has completed the
\* preview is idle: not playing, currentIndex = 0, slot 1 active.
C15_IdleAfterAllSegments ==
  ~playerBgm =>
    /\ currentIndex = endedCount
    /\ (lastEvent = "videoEnded" /\ endedCount = 0) => PlayerIdle
\* the preview of a playlist of three or more segments without track, just
\* after its last segment has completed
C15_Witness ==
  /\ ~playerBgm /\ Len(segments) >= 3
  /\ lastEvent = "videoEnded" /\ endedCount = 0 /\ PlayerIdle

\* the segment that follows the current one: (index + 1) mod N with a
\* track, index + 1 without
NextSegmentIndex ==
  IF playerBgm THEN (currentIndex + 1) % Len(segments) ELSE currentIndex + 1

\* C16: whenever a next segment exists, the inactive slot is loaded with
\* the source of that segment.
C16_InactiveSlotPreloaded ==
  NextSegmentIndex < Len(segments) =>
    videoRef[Other(activePlayerId)].src = segments[NextSegmentIndex + 1]

\* C17: the two video slots are never playing at the same time.
C17_AtMostOneSlotPlaying == ~(videoRef[1].playing /\ videoRef[2].playing)
\* slot 2 plays, after a video-ended event has handed over to it and
\* togglePlay has paused and resumed it, while slot 1 is loaded and paused
C17_Witness ==
  /\ activePlayerId = 2 /\ videoRef[2].playing /\ ~videoRef[1].playing
  /\ videoRef[1].src # NoSrc /\ lastEvent = "toggle"

\* C18: right after the track has ended the preview is not playing, at
\* currentIndex 0 on slot 1, and both video slots and the audio element are
\* stopped and rewound.
C18_TrackEndResets ==
  lastEvent = "audioEnded" =>
    /\ PlayerIdle
    /\ \A k \in {1, 2} : videoRef[k].pos = 0
    /\ ~audioRef.playing /\ audioRef.pos = 0
\* the track has ended in the middle of a playlist of MaxPlayerSegs
\* segments, with the last segment loaded on slot 2, which still holds it
C18_Witness ==
  /\ lastEvent = "audioEnded" /\ playerBgm
  /\ Len(segments) = MaxPlayerSegs
  /\ videoRef[2].src = segments[Len(segments)]

\* C19: with a track, every video completion moves the preview to segment
\* (index + 1) mod N on the other slot, and the preview goes on playing
\* there.
C19_TrackLoopsVideo ==
  [][(playerBgm /\ lastEvent' = "videoEnded") =>
       /\ currentIndex' = (currentIndex + 1) % Len(segments)
       /\ activePlayerId' = Other(activePlayerId)
       /\ isPlaying'
       /\ videoRef'[activePlayerId'].playing]_vars

\* C20: with a track, the background audio is playing exactly when the
\* active video slot is playing.
C20_AudioInLockstep ==
  playerBgm => (audioRef.playing <=> videoRef[activePlayerId].playing)

(* ---- properties of the export pipeline, continued ---- *)

\* handleExport has returned from a job
JobEnded == pc = "idle" /\ jobStatus \in {"success", "failure"}

\* C21: when a job has ended, on success and on failure alike, the draw
\* timer is cleared, the audio context is closed and the source of the
\* video element is cleared.
C21_ResourcesReleased ==
  JobEnded => (~drawInterval /\ audioCtx = "closed" /\ video.src = -1)

(* ---- properties of overlay rendering ---- *)

\* C22: for the same overlay and the same surface size the preview and the
\* export give the same bounding box and the same font size, stroke width,
\* shadow blur and padding.
C22_OverlayParity ==
  (previewOverlay.drawn /\ exportOverlay.drawn /\ surfaceWidth = ReferenceWidth)
    => previewOverlay = exportOverlay

(* ---- properties of the segment sequencer ---- *)

\* C23: every step that ends a playing segment pauses the recorder, stops
\* the track source node of the segment, adds the duration of the clip to
\* the accumulated time and advances the segment index by one.
C23_SameFinalization ==
  [][(pc = "playing" /\ pc' = "next") =>
       /\ recorder'.state = "paused"
       /\ ~segmentBgmSource' /\ leakedSources' = leakedSources
       /\ accumulatedTime' = accumulatedTime + VideoDuration
       /\ currentSegmentIndex' = NextIndex(currentSegmentIndex)]_vars

\* track source nodes that are started and connected to the mix destination:
\* the one of the current attempt and those left behind by earlier attempts
\* (counted once)
StartedSources ==
  (IF segmentBgmSource THEN 1 ELSE 0) + (IF leakedSources THEN 1 ELSE 0)

\* C24: at any time at most one track source node is started and connected
\* to the mix destination.
C24_AtMostOneSource == StartedSources <= 1

\* an attempt on a segment is under way
Attempting == pc \in {"loading", "playing"}

\* C25: every attempt is on segments[currentSegmentIndex mod N], with the
\* index below N when no track is attached; the step that ends an attempt
\* hands over to playNextSegment and advances the index by exactly one (with
\* a track, laps after the second are folded onto the second); and the index
\* changes at no other step of a job (its variable begins at 0 with each job
\* and is gone when the job returns).
C25_SegmentsInOrder ==
  /\ [](Attempting =>
          /\ video.src \in {-1, SegmentAt(currentSegmentIndex)}
          /\ bgm = 0 => currentSegmentIndex < N)
  /\ [][(pc = "next" /\ pc' = "loading") =>
          video'.src = currentSegmentIndex % N]_vars
  /\ [][(Attempting /\ ~Attempting') =>
          /\ pc' = "next"
          /\ \/ currentSegmentIndex' = currentSegmentIndex + 1
             \/ /\ bgm # 0 /\ currentSegmentIndex + 1 = 2 * N
                /\ currentSegmentIndex' = N]_vars
  /\ [][(currentSegmentIndex' # currentSegmentIndex) =>
          \/ Attempting /\ pc' = "next"
          \/ (pc = "idle" \/ pc' = "idle") /\ currentSegmentIndex' = 0]_vars

\* the third attempt of a track-bound job on two segments is on the first
\* segment again, after an earlier attempt ended by timeout or rejected play
C25_Witness ==
  /\ pc = "playing" /\ bgm # 0 /\ N = MaxSegs /\ leakedPolls
  /\ currentSegmentIndex = N /\ video.src = 0

\* the poll timer of the playing segment fires
PollFires == PollCutoff \/ PollIdle

\* C26: with a decoded track, a poll during playback that finds accumulated
\* time plus clip time at or beyond the duration of the track pauses the
\* clip and finalizes the segment; from there on no segment is loaded, and
\* the next step of the job stops the recorder.
C26_CutoffEndsJob ==
  /\ [][(PollFires /\ bgm # 0 /\ bgmBuffer /\ ~video.paused
           /\ accumulatedTime + video.currentTime >= bgm) =>
          /\ video'.paused /\ pc' = "next" /\ cutoffs' = 1
          /\ recorder'.state = "paused"
          /\ ~segmentBgmSource' /\ ~timeCheckInterval'
          /\ accumulatedTime' = accumulatedTime + VideoDuration
          /\ currentSegmentIndex' = NextIndex(currentSegmentIndex)]_vars
  /\ []((bgmBuffer /\ cutoffs = 1) => ~Attempting)
  /\ [][(bgmBuffer /\ cutoffs = 1 /\ pc = "next" /\ pc' # pc) =>
          (pc' = "stopping" /\ recorder'.state = "inactive")]_vars

\* the recorder was stopped after a cutoff in the middle of a clip
C26_Witness ==
  /\ pc = "stopping" /\ cutoffs = 1 /\ bgmBuffer /\ video.src # -1
  /\ video.currentTime < composition[video.src + 1]

(* ---- properties of the export progress ---- *)

\* C27: once playNextSegment has dealt with a segment transition, the last
\* one included, exportProgress is the rounded percentage of accumulated
\* time over the target duration with a track, and of segments played to
\* their end over all segments without one.
C27_ProgressAtTransitions ==
  (jobStatus = "running" /\ pc \in {"loading", "playing", "stopping"})
    => exportProgress = IF bgm # 0
                        THEN ProgressOf(accumulatedTime, totalDuration)
                        ELSE ProgressOf(Len(playLog), N)

(* ---- properties of the background track ---- *)

\* line 573: the offset at which the source node of an attempt is started
BgmOffset == accumulatedTime % bgm

\* position in the track of the source node of the playing segment: started
\* at BgmOffset with loop = true, it has run for as long as the clip
BgmPosition == (accumulatedTime + video.currentTime) % bgm

\* C28: with a decoded track, when a playing segment ends and another one
\* follows, the offset at which the next source node is started is the
\* position the track had reached when the segment ended.
C28_TrackContinuous ==
  [][(pc = "playing" /\ pc' = "next" /\ bgmBuffer
        /\ ~SequencerDone(currentSegmentIndex', accumulatedTime')) =>
       BgmOffset' = BgmPosition]_vars

(* ---- properties of the batch export, continued ---- *)

\* C29: in a batch the job of the next target is started only from the
\* cooldown after the job before it, when that job has returned with a
\* terminal status, its audio context closed and its draw timer cleared; the
\* cooldown begins only when the job has returned, and while a job of the
\* batch runs it is the only pipeline.
C29_BatchJobsDoNotOverlap ==
  /\ [][(batchPc' = "job" /\ batchI' = batchI + 1) =>
          /\ batchPc = "cooldown" /\ pc = "idle" /\ pipelines = 0
          /\ jobStatus \in {"success", "failure"}
          /\ audioCtx = "closed" /\ ~drawInterval
          /\ Len(batchLog) = batchI + 1]_vars
  /\ [](batchPc = "cooldown" =>
          (JobEnded /\ pipelines = 0 /\ audioCtx = "closed" /\ ~drawInterval))
  /\ [](batchPc = "job" => pipelines = 1)

\* the second job of a batch is playing after the first job failed
C29_Witness ==
  /\ batchPc = "job" /\ batchI = 1 /\ pc = "playing"
  /\ Len(batchLog) = 1 /\ batchLog[1].status = "failure"

(* ---- properties of the recorder's container ---- *)

\* positions in MimeTypes of the supported types
SupportedAt == {i \in 1..Len(MimeTypes) : supported[MimeTypes[i]]}

\* C30: a recorder is created exactly when one of the three types is
\* supported, its type is then the first supported one in the order of
\* preference, and the name of the downloaded file ends in mp4 for
\* video/mp4 and in webm for the two webm types.
C30_FirstSupportedContainer ==
  /\ recPc \in {"recording", "done"} =>
       /\ SupportedAt # {}
       /\ \A i \in SupportedAt :
            (\A j \in SupportedAt : i <= j) => mimeType = MimeTypes[i]
  /\ (recPc = "failed" /\ SupportedAt # {}) =>
       \A i \in SupportedAt :
            (\A j \in SupportedAt : i <= j) => mimeType = MimeTypes[i]
  /\ recPc = "done" =>
       /\ mimeType = "video/mp4" => fileName[Len(fileName)] = "mp4"
       /\ mimeType # "video/mp4" => fileName[Len(fileName)] = "webm"

\* a file of a composition with a blank in its name was downloaded in a
\* browser that supports the two webm types only
C30_Witness ==
  /\ recPc = "done" /\ ~supported["video/mp4"]
  /\ supported["video/webm;codecs=h264"] /\ supported["video/webm"]
  /\ compName = <<"a", " ">> /\ fileName = <<"a", "_", "_9_16.", "webm">>

(* ---- termination of a job ---- *)

\* C31: every started job reaches success or failure, whatever its segments
\* do, with a track and without (a job whose track failed to load runs
\* towards a target of 9999 s, beyond the accumulated time followed here,
\* and is left aside once the failure of its track is known).
C31_EveryJobTerminates ==
  (jobStatus = "running")
    ~> (jobStatus \in {"success", "failure"} \/ TrackFailed)

(* ---- accounting of elapsed time ---- *)

\* C32: at every segment boundary accumulatedTime is the time for which
\* segments have been played in the job (playedTime counts it up to
\* MaxPlayed ticks; beyond that accumulatedTime is at least MaxPlayed).
C32_AccumulatedIsPlayed ==
  (jobStatus = "running" /\ pc = "next")
    => IF playedTime < MaxPlayed THEN accumulatedTime = playedTime
       ELSE accumulatedTime >= MaxPlayed

(* ---- properties of the preview player, continued ---- *)

\* C33: in every state the active slot holds the source of
\* segments[currentIndex], the segment whose name and overlay are shown.
C33_ActiveSlotIsCurrent ==
  videoRef[activePlayerId].src = segments[currentIndex + 1]

\* C34: isPlaying is true exactly when the video of the active slot is
\* playing (every state of the player is one in which the promises of
\* play() have settled).
C34_IsPlayingAgrees == isPlaying <=> videoRef[activePlayerId].playing

(* ---- the export guard ---- *)

\* no export is under way: no job and no batch loop
NoExportRunning == pc = "idle" /\ batchPc = "idle"

\* C35: when no export is under way, also after jobs and batches that
\* succeeded or failed, isExporting is false, batchStatus is {0, 0, false},
\* exportProgress is 0 and both export buttons accept a request.
C35_GuardCleared ==
  NoExportRunning =>
    /\ ~isExporting /\ batchStatus = NoBatch /\ exportProgress = 0
    /\ ~ExportButtonDisabled /\ ~BatchButtonDisabled(1)

\* a batch of MaxBatch targets has ended, its last job failed
C35_Witness ==
  /\ NoExportRunning /\ Len(batchLog) = MaxBatch
  /\ batchLog[Len(batchLog)].status = "failure" /\ jobStatus = "failure"

\* C36: right after a change of the segments or of the track the preview is
\* not playing, at index 0 on slot 1, both video slots and the audio are
\* paused at their start, slot 1 holds segment 0 and, when N > 1, slot 2
\* holds segment 1.
C36_PropsChangeResets ==
  lastEvent = "propsChanged" =>
    /\ ~isPlaying /\ currentIndex = 0 /\ activePlayerId = 1
    /\ \A k \in {1, 2} : ~videoRef[k].playing /\ videoRef[k].pos = 0
    /\ ~audioRef.playing /\ audioRef.pos = 0
    /\ videoRef[1].src = segments[1]
    /\ Len(segments) > 1 => videoRef[2].src = segments[2]

\* the props changed to a playlist of one segment after the preview had
\* played into the third segment of a longer one: slot 2 keeps the fourth
\* clip of that playlist, which it had preloaded, stopped at its start
C36_Witness ==
  /\ lastEvent = "propsChanged" /\ Len(segments) = 1
  /\ videoRef[2].src = 3 /\ ~videoRef[2].playing /\ videoRef[2].pos = 0

(* ---- timers of the segment attempts ---- *)

\* C37: while a segment loads or plays and after the job has ended no poll
\* timer of an earlier attempt is alive, and outside an attempt neither the
\* load timer nor the poll timer is set.
C37_NoTimerOutlivesAttempt ==
  /\ (Attempting \/ JobEnded) => ~leakedPolls
  /\ ~Attempting => (~loadTimeout /\ ~timeCheckInterval)

====
